---- MODULE Spec2Model ----
(***************************************************************************)
(* Educational k-Means widget (orangecontrib/educational/widgets/          *)
(* owkmeans.py) together with the stepwise clustering session it drives    *)
(* (class Kmeans of widgets/utils/kmeans.py).                              *)
(*                                                                         *)
(* The widget handlers are translated from owkmeans.py.  The Kmeans class  *)
(* is not part of the available sources; its operations are modelled from  *)
(* the specification (spec.md, section 4.1 and section 7) and are marked   *)
(* "Kmeans.*" below.                                                       *)
(*                                                                         *)
(* Coordinates are exact rationals written in sixths: the integer 6 stands *)
(* for 1.0.  Every data coordinate is a multiple of 6, so the mean of any  *)
(* 1, 2 or 3 data points is again an integer number of sixths.             *)
(***************************************************************************)
EXTENDS Integers, Sequences, FiniteSets, TLC

\* ---------------------------------------------------------------- bounds
MaxSteps == 4      \* SpecSession, SpecMove: step() is not taken once the history holds this many snapshots
MaxStepsWide == 2  \* Spec, SpecDrag, SpecAuto, SpecInput: the same bound, for the wider specifications
MaxQueue == 2      \* the autoplay thread emits no signal while this many are pending
MaxK == 2          \* a chart click adds no centroid once the session has this many
MaxSpin == 2       \* numberOfClusters stays within this: spinner values and chart clicks
MaxAutoSteps == 12 \* SpecAutoRun: no step() signal is delivered once the history holds this many
MaxPrepare == 5    \* SpecAutoRun: "Start" is pressed after at most this many user operations
MaxThreads == 2    \* "Start" creates no Autoplay thread while this many are alive

\* ------------------------------------------------------ program constants
SpinMin == 1       \* gui.spin(..., minv=1, ...)
SpinMax == 10      \* gui.spin(..., maxv=10, ...)
DefaultClusters == 0   \* numberOfClusters = settings.Setting(0)

\* ------------------------------------------------------------ input data
\* The tables that can arrive on the "Data" input.  "None" is no table.
\*   "T1", "T2"  two continuous features x and y (three rows, one row)
\*   "few"       one continuous feature a and one discrete feature d (two rows)
\*   "few_xy"    one continuous feature x and a continuous class y (two rows)
Tables == {"None", "few", "few_xy", "T1", "T2"}

\* data.domain: the names of the columns of the table
Columns(d) ==
    CASE d \in {"T1", "T2", "few_xy"} -> {"x", "y"}
      [] d = "few" -> {"a", "d"}
      [] OTHER -> {}

\* the values of one column, row by row
Column(d, a) ==
    CASE d = "T1" /\ a = "x" -> <<0, 12, 6>>
      [] d = "T1" /\ a = "y" -> <<0, 0, 6>>
      [] d = "T2" /\ a \in {"x", "y"} -> <<6>>
      [] d = "few" /\ a \in {"a", "d"} -> <<0, 6>>
      [] d = "few_xy" /\ a \in {"x", "y"} -> <<0, 6>>
      [] OTHER -> << >>

\* len(self.data)
NumRows(d) ==
    CASE d = "T1" -> 3
      [] d \in {"few", "few_xy"} -> 2
      [] d = "T2" -> 1
      [] OTHER -> 0

\* init_combos: the continuous columns of the whole domain, class included,
\* in domain order; both combo boxes get the same items
ComboItems(d) ==
    CASE d \in {"T1", "T2", "few_xy"} -> <<"x", "y">>
      [] d = "few" -> <<"a">>
      [] OTHER -> << >>

\* set_data: the number of continuous variables among data.domain.attributes
ContinuousAttributes(d) ==
    CASE d \in {"T1", "T2"} -> 2
      [] d \in {"few", "few_xy"} -> 1
      [] OTHER -> 0

\* the tables set_data starts a session for
GoodTables == {d \in Tables : d # "None" /\ ContinuousAttributes(d) >= 2}

\* the two selected columns side by side; the caller has checked that the
\* table has both columns
concat_x_y(d, ax, ay) ==
    [i \in 1..NumRows(d) |-> << Column(d, ax)[i], Column(d, ay)[i] >>]

\* The Autoplay threads that can be alive at once.
Threads == 1..MaxThreads

\* Positions a chart click and a centroid drop can deliver.
ClickPositions == { <<12, 0>> }
DropPositions == { <<0, 6>> }

Min(a, b) == IF a < b THEN a ELSE b
Max(a, b) == IF a > b THEN a ELSE b

RECURSIVE FoldMin(_, _, _)
FoldMin(pts, c, i) ==
    IF i > Len(pts) THEN pts[1][c]
    ELSE Min(pts[i][c], FoldMin(pts, c, i + 1))

RECURSIVE FoldMax(_, _, _)
FoldMax(pts, c, i) ==
    IF i > Len(pts) THEN pts[1][c]
    ELSE Max(pts[i][c], FoldMax(pts, c, i + 1))

\* Kmeans: a random position inside the bounding box of the data.  The model
\* draws it from two corners of the box.
RandomPositions(pts) ==
    { << FoldMin(pts, 1, 1), FoldMin(pts, 2, 1) >>,
      << FoldMax(pts, 1, 1), FoldMax(pts, 2, 1) >> }

\* ------------------------------------------------------- Kmeans (session)
\* A session is the fields kdata, centroids, clusters, step_completed,
\* history, converged of the state record w.  clusters = << >> is "unassigned"
\* (k_means.clusters is None).

Dist2(p, c) == (p[1] - c[1]) * (p[1] - c[1]) + (p[2] - c[2]) * (p[2] - c[2])

\* Kmeans: index (1-based) of the nearest centroid, scanning the centroids in
\* order and replacing the best only by a strictly closer one.
RECURSIVE NearestFrom(_, _, _, _)
NearestFrom(p, cs, j, best) ==
    IF j > Len(cs) THEN best
    ELSE NearestFrom(p, cs, j + 1,
                     IF Dist2(p, cs[j]) < Dist2(p, cs[best]) THEN j ELSE best)

\* The nearest centroid with ties going to the highest index.
RECURSIVE NearestLastFrom(_, _, _, _)
NearestLastFrom(p, cs, j, best) ==
    IF j > Len(cs) THEN best
    ELSE NearestLastFrom(p, cs, j + 1,
                         IF Dist2(p, cs[j]) <= Dist2(p, cs[best]) THEN j ELSE best)

find_clusters_last(pts, cs) ==
    [i \in 1..Len(pts) |-> NearestLastFrom(pts[i], cs, 2, 1) - 1]

\* Kmeans assignment phase: 0-based centroid index per point.
find_clusters(pts, cs) ==
    [i \in 1..Len(pts) |-> NearestFrom(pts[i], cs, 2, 1) - 1]

RECURSIVE SumCoord(_, _, _, _, _)
SumCoord(pts, cl, j, c, i) ==
    IF i > Len(pts) THEN 0
    ELSE (IF cl[i] = j THEN pts[i][c] ELSE 0) + SumCoord(pts, cl, j, c, i + 1)

Members(cl, j) == {i \in 1..Len(cl) : cl[i] = j}

\* The update phase with a centroid without members put at the mean of all
\* the points.
move_to_means_all(pts, cl, cs) ==
    [j \in 1..Len(cs) |->
        LET n == Cardinality(Members(cl, j - 1))
            all == [i \in 1..Len(pts) |-> j - 1]
        IN IF n = 0
           THEN << SumCoord(pts, all, j - 1, 1, 1) \div Len(pts),
                   SumCoord(pts, all, j - 1, 2, 1) \div Len(pts) >>
           ELSE << SumCoord(pts, cl, j - 1, 1, 1) \div n,
                   SumCoord(pts, cl, j - 1, 2, 1) \div n >>]

\* Kmeans update phase: every centroid with members moves to their mean, a
\* centroid without members keeps its position.
move_to_means(pts, cl, cs) ==
    [j \in 1..Len(cs) |->
        LET n == Cardinality(Members(cl, j - 1))
        IN IF n = 0 THEN cs[j]
           ELSE << SumCoord(pts, cl, j - 1, 1, 1) \div n,
                   SumCoord(pts, cl, j - 1, 2, 1) \div n >>]

Snapshot(w) ==
    [centroids |-> w.centroids, clusters |-> w.clusters,
     step_completed |-> w.step_completed]

\* A rejected Kmeans operation changes nothing; when the session signals the
\* rejection by raising (rz), the widget handler that called it is abandoned.
Reject(w, rz) == IF rz THEN [w EXCEPT !.exc = TRUE] ELSE w

\* Kmeans(data): one centroid at a random position c0, nothing assigned.
KmeansNew(w, pts, c0) ==
    [w EXCEPT !.k_means = TRUE, !.kdata = pts, !.centroids = << c0 >>,
              !.clusters = << >>, !.step_completed = TRUE,
              !.history = << >>, !.converged = FALSE]

\* Kmeans.step()
KmeansStep(w) ==
    LET pushed == [w EXCEPT !.history = Append(w.history, Snapshot(w))]
    IN IF w.step_completed
       THEN LET new == find_clusters(w.kdata, w.centroids)
            IN [pushed EXCEPT !.clusters = new,
                              !.step_completed = FALSE,
                              !.converged = (w.clusters # << >> /\ new = w.clusters)]
       ELSE LET cs == move_to_means(w.kdata, w.clusters, w.centroids)
            IN [pushed EXCEPT !.centroids = cs,
                              !.step_completed = TRUE,
                              !.converged = (w.converged /\ cs = w.centroids)]

\* Kmeans.stepBack()
KmeansStepBack(w) ==
    IF w.history = << >> THEN w
    ELSE LET s == w.history[Len(w.history)]
         IN [w EXCEPT !.centroids = s.centroids, !.clusters = s.clusters,
                      !.step_completed = s.step_completed,
                      !.history = SubSeq(w.history, 1, Len(w.history) - 1),
                      !.converged = FALSE]

\* Kmeans.add_centroids(pos)
KmeansAdd(w, pos, rz) ==
    IF ~w.step_completed THEN Reject(w, rz)
    ELSE [w EXCEPT !.centroids = Append(w.centroids, pos), !.converged = FALSE]

\* delete_centroids() without the check that a centroid remains
KmeansDeleteAny(w, rz) ==
    [w EXCEPT !.centroids = SubSeq(w.centroids, 1, Len(w.centroids) - 1),
              !.converged = FALSE]

\* Kmeans.delete_centroids(): removes the last centroid; the assignments are
\* left as they are until the next assignment phase.
KmeansDelete(w, rz) ==
    IF Len(w.centroids) <= 1 THEN Reject(w, rz)
    ELSE [w EXCEPT !.centroids = SubSeq(w.centroids, 1, Len(w.centroids) - 1),
                   !.converged = FALSE]

\* move_centroid() that leaves converged as it is
KmeansMoveKeep(w, index, pos, rz) ==
    IF ~w.step_completed \/ index < 0 \/ index >= Len(w.centroids)
    THEN Reject(w, rz)
    ELSE [w EXCEPT !.centroids[index + 1] = pos]

\* Kmeans.move_centroid(index, x, y)
KmeansMove(w, index, pos, rz) ==
    IF ~w.step_completed \/ index < 0 \/ index >= Len(w.centroids)
    THEN Reject(w, rz)
    ELSE [w EXCEPT !.centroids[index + 1] = pos, !.converged = FALSE]


\* ---------------------------------------------------------------- widget
VARIABLES
    data,              \* self.data: the table on the input
    attr_x,            \* self.attr_x: name of the column on the x axis ("": not set)
    attr_y,            \* self.attr_y
    info,              \* text of the info label
    k_means,           \* self.k_means is not None
    kdata,             \* k_means.data: the points of the session
    centroids,         \* k_means.centroids
    clusters,          \* k_means.clusters (<< >>: None)
    step_completed,    \* k_means.step_completed
    history,           \* the snapshots stepBack() pops; stepNo is its length
    converged,         \* k_means.converged
    numberOfClusters,  \* self.numberOfClusters
    autoPlay,          \* self.autoPlay
    optionsDisabled,   \* optionsBox.setDisabled
    commandsDisabled,  \* commandsBox.setDisabled
    stepDisabled,      \* stepButton.setDisabled
    restartDisabled,   \* restartButton.setDisabled
    stepBackDisabled,  \* stepBackButton.setDisabled
    spinnerDisabled,   \* centroidNumbersSpinner.setDisabled
    stepText,          \* stepButton text
    chart,             \* what the scatter shows: "empty", "cleared" or "plot"
    draggable,         \* draggableX/draggableY of the plotted centroid series
    drawnK,            \* number of centroids in the plotted series
    annotated,         \* last value sent to "Annotated Data"
    dragging,          \* index of the centroid being dragged in the chart, -1: none
    tpc,               \* where each Autoplay thread is: "idle" (not running), "new"
                       \* (started, run() not entered), "loop" (about to read
                       \* converged), "auto" (about to read autoPlay), "step"
                       \* (about to emit step()), "stop" (about to emit
                       \* stop_auto_play())
    current,           \* the thread self.autoPlayThread refers to (0: none yet)
    queue,             \* signals of the threads the main event loop has not handled yet
    blocked,           \* the main thread waits in Autoplay.__del__ for the old thread
    rejectRaises,      \* whether the session signals a rejection by raising
    afterStop,         \* history variable: step() signals each running thread has
                       \* emitted since the user stopped autoplay (-1: not stopped)
    lastOp,            \* history variable: the handler that ran last
    run,               \* history variable: where the current run of steps started
    net,               \* history variable: steps minus effective step-backs
    prep               \* history variable: what the user has done so far, counted
                       \* up to MaxPrepare

wvars == << data, attr_x, attr_y, info, k_means, kdata, centroids, clusters, step_completed,
            history, converged, numberOfClusters, autoPlay, optionsDisabled,
            commandsDisabled, stepDisabled, restartDisabled, stepBackDisabled,
            spinnerDisabled, stepText, chart, draggable, drawnK, annotated >>

vars == << wvars, dragging, tpc, queue, current, blocked, rejectRaises, afterStop,
          lastOp, run, net, prep >>

NoOutput == [k |-> 0, clusters |-> << >>]

\* The widget (and its session) as one record, so that a handler is a function
\* from the state it finds to the state it leaves.  exc: an exception is
\* propagating out of the handler.
State ==
    [data |-> data, attr_x |-> attr_x, attr_y |-> attr_y, info |-> info, k_means |-> k_means,
     kdata |-> kdata, centroids |-> centroids, clusters |-> clusters,
     step_completed |-> step_completed, history |-> history,
     converged |-> converged, numberOfClusters |-> numberOfClusters,
     autoPlay |-> autoPlay, optionsDisabled |-> optionsDisabled,
     commandsDisabled |-> commandsDisabled, stepDisabled |-> stepDisabled,
     restartDisabled |-> restartDisabled, stepBackDisabled |-> stepBackDisabled,
     spinnerDisabled |-> spinnerDisabled, stepText |-> stepText, chart |-> chart,
     draggable |-> draggable, drawnK |-> drawnK, annotated |-> annotated,
     exc |-> FALSE]

\* The handler has returned (or its exception was reported by the event loop).
Set(w) ==
    /\ data' = w.data /\ attr_x' = w.attr_x /\ attr_y' = w.attr_y
    /\ info' = w.info
    /\ k_means' = w.k_means /\ kdata' = w.kdata /\ centroids' = w.centroids
    /\ clusters' = w.clusters /\ step_completed' = w.step_completed
    /\ history' = w.history /\ converged' = w.converged
    /\ numberOfClusters' = w.numberOfClusters /\ autoPlay' = w.autoPlay
    /\ optionsDisabled' = w.optionsDisabled
    /\ commandsDisabled' = w.commandsDisabled
    /\ stepDisabled' = w.stepDisabled /\ restartDisabled' = w.restartDisabled
    /\ stepBackDisabled' = w.stepBackDisabled
    /\ spinnerDisabled' = w.spinnerDisabled /\ stepText' = w.stepText
    /\ chart' = w.chart /\ draggable' = w.draggable /\ drawnK' = w.drawnK
    /\ annotated' = w.annotated

Raise(w) == [w EXCEPT !.exc = TRUE]
\* The next statement F of a handler: skipped when an exception is propagating.
Then(w, F(_)) == CHOOSE r \in {IF v.exc THEN v ELSE F(v) : v \in {w}} : TRUE

set_empty_plot(w) == [w EXCEPT !.chart = "cleared"]

\* data.domain[self.attr_x], data.domain[self.attr_y] finds both columns
HasColumns(w) ==
    /\ w.attr_x \in Columns(w.data)
    /\ w.attr_y \in Columns(w.data)

replot(w) ==
    IF w.data = "None" \/ w.attr_x = "" \/ w.attr_y = "" THEN w
    ELSE IF ~HasColumns(w) \/ ~w.k_means THEN Raise(w)
    ELSE [w EXCEPT !.chart = "plot", !.draggable = w.step_completed,
                   !.drawnK = Len(w.centroids)]

\* column[:] = self.k_means.clusters: one label for every row, or a single
\* label that is repeated over all rows; any other length raises
send_data(w) ==
    IF ~w.k_means \/ w.clusters = << >> THEN [w EXCEPT !.annotated = NoOutput]
    ELSE IF w.data = "None" THEN Raise(w)
    ELSE IF Len(w.clusters) = NumRows(w.data)
    THEN [w EXCEPT !.annotated = [k |-> Len(w.centroids), clusters |-> w.clusters]]
    ELSE IF Len(w.clusters) = 1
    THEN [w EXCEPT !.annotated =
              [k |-> Len(w.centroids),
               clusters |-> [i \in 1..NumRows(w.data) |-> w.clusters[1]]]]
    ELSE Raise(w)

\* for _ in range(n): self.k_means.add_centroids()
RECURSIVE AddLoop(_, _, _, _)
AddLoop(w, n, rnd, rz) ==
    IF n = 0 \/ w.exc THEN w
    ELSE AddLoop(KmeansAdd(w, Head(rnd), rz), n - 1, Tail(rnd), rz)

\* for _ in range(n): self.k_means.delete_centroids()
RECURSIVE DeleteLoop(_, _, _)
DeleteLoop(w, n, rz) ==
    IF n = 0 \/ w.exc THEN w
    ELSE DeleteLoop(KmeansDelete(w, rz), n - 1, rz)

RECURSIVE restart(_, _, _)

\* rnd: the positions the session draws for new centroids, in the order drawn
number_of_clusters_changed(w, rnd, rz) ==
    IF w.data = "None" THEN Raise(w)
    ELSE IF w.numberOfClusters > NumRows(w.data)
    THEN [set_empty_plot(w) EXCEPT !.info = "too few points", !.commandsDisabled = TRUE]
    ELSE LET w1 == [w EXCEPT !.info = "", !.commandsDisabled = FALSE]
             w2 == IF ~w1.k_means THEN restart(w1, rnd, rz) ELSE w1
             k == Len(w2.centroids)
             left == IF ~w1.k_means THEN << >> ELSE rnd
             w3 == IF w2.exc THEN w2
                   ELSE IF k < w2.numberOfClusters
                   THEN AddLoop(w2, w2.numberOfClusters - k, left, rz)
                   ELSE DeleteLoop(w2, k - w2.numberOfClusters, rz)
         IN Then(Then(w3, replot), send_data)

restart(w, rnd, rz) ==
    IF w.data = "None" \/ ~HasColumns(w) THEN Raise(w)
    ELSE LET w1 == KmeansNew(w, concat_x_y(w.data, w.attr_x, w.attr_y), Head(rnd))
             w2 == number_of_clusters_changed(w1, Tail(rnd), rz)
             w3 == Then(w2, replot)
             w4 == IF w3.exc THEN w3
                   ELSE [w3 EXCEPT !.spinnerDisabled = FALSE,
                                   !.stepText = "Move centroids",
                                   !.stepBackDisabled = TRUE]
         IN Then(w4, send_data)

set_data(w, d, rnd, rz) ==
    LET w1 == [w EXCEPT !.data = d]
    IN IF d = "None"
       THEN [set_empty_plot(w1) EXCEPT !.info = "no data", !.optionsDisabled = TRUE]
       ELSE IF ContinuousAttributes(d) < 2
       THEN [set_empty_plot(w1) EXCEPT !.info = "too few features",
                                       !.optionsDisabled = TRUE]
       ELSE restart([w1 EXCEPT !.optionsDisabled = FALSE, !.info = "",
                               !.attr_x = ComboItems(d)[1],
                               !.attr_y = ComboItems(d)[2]], rnd, rz)

StepLabel(w) == IF w.step_completed THEN "Move centroids" ELSE "Find new clusters"

\* step() with the session stepped twice
step_twice(w) ==
    IF ~w.k_means THEN Raise(w)
    ELSE LET w1 == Then(KmeansStep(KmeansStep(w)), replot)
             w2 == IF w1.exc THEN w1
                   ELSE [w1 EXCEPT !.spinnerDisabled = ~w1.step_completed,
                                   !.stepText = StepLabel(w1),
                                   !.stepBackDisabled =
                                       IF ~w1.autoPlay THEN FALSE ELSE @]
         IN Then(w2, send_data)

step(w) ==
    IF ~w.k_means THEN Raise(w)
    ELSE LET w1 == Then(KmeansStep(w), replot)
             w2 == IF w1.exc THEN w1
                   ELSE [w1 EXCEPT !.spinnerDisabled = ~w1.step_completed,
                                   !.stepText = StepLabel(w1),
                                   !.stepBackDisabled =
                                       IF ~w1.autoPlay THEN FALSE ELSE @]
         IN Then(w2, send_data)

\* step_back() that refreshes the widget without calling stepBack()
step_back_norestore(w) ==
    IF ~w.k_means THEN Raise(w)
    ELSE LET w1 == Then(w, replot)
             w2 == IF w1.exc THEN w1
                   ELSE [w1 EXCEPT !.spinnerDisabled = ~w1.step_completed,
                                   !.stepText = StepLabel(w1),
                                   !.stepBackDisabled =
                                       IF Len(w1.history) <= 0 THEN TRUE ELSE @]
         IN Then(w2, send_data)

step_back(w) ==
    IF ~w.k_means THEN Raise(w)
    ELSE LET w1 == Then(KmeansStepBack(w), replot)
             w2 == IF w1.exc THEN w1
                   ELSE [w1 EXCEPT !.spinnerDisabled = ~w1.step_completed,
                                   !.stepText = StepLabel(w1),
                                   !.stepBackDisabled =
                                       IF Len(w1.history) <= 0 THEN TRUE ELSE @]
         IN Then(w2, send_data)

graph_clicked(w, pos, rz) ==
    IF w.k_means /\ w.step_completed
    THEN LET w1 == KmeansAdd(w, pos, rz)
             w2 == IF w1.exc THEN w1
                   ELSE [w1 EXCEPT !.numberOfClusters = @ + 1]
         IN Then(Then(w2, replot), send_data)
    ELSE w

\* centroid_dropped() that writes the centroid itself instead of calling
\* move_centroid()
centroid_dropped_direct(w, index, pos, rz) ==
    IF ~w.k_means THEN Raise(w)
    ELSE IF index >= Len(w.centroids) THEN Raise(w)
    ELSE Then(Then([w EXCEPT !.centroids[index + 1] = pos], replot), send_data)

centroid_dropped(w, index, pos, rz) ==
    IF ~w.k_means THEN Raise(w)
    ELSE Then(Then(KmeansMove(w, index, pos, rz), replot), send_data)


\* auto_play(), up to the creation of the new thread
auto_play(w) ==
    IF ~w.autoPlay
    THEN [w EXCEPT !.autoPlay = TRUE, !.optionsDisabled = TRUE,
                   !.stepDisabled = TRUE, !.restartDisabled = TRUE,
                   !.stepBackDisabled = TRUE]
    ELSE w

\* stop_auto_play() that leaves self.autoPlay as it is
stop_auto_play_keep(w) ==
    [w EXCEPT !.optionsDisabled = FALSE, !.stepDisabled = FALSE,
              !.restartDisabled = FALSE, !.stepBackDisabled = FALSE]

stop_auto_play(w) ==
    [w EXCEPT !.optionsDisabled = FALSE, !.stepDisabled = FALSE,
              !.restartDisabled = FALSE, !.stepBackDisabled = FALSE,
              !.autoPlay = FALSE]

\* --------------------------------------------------------------- actions
\* Sequences of n random positions for the session's random placements.
RandSeqs(pts, n) == IF n = 0 THEN { << >> } ELSE [1..n -> RandomPositions(pts)]

\* The points restart builds the session on (none when concat_x_y raises).
RestartPoints(w) ==
    IF w.data # "None" /\ HasColumns(w)
    THEN concat_x_y(w.data, w.attr_x, w.attr_y) ELSE << >>

\* Number of random placements restart makes: one for Kmeans(data) and one
\* per centroid number_of_clusters_changed adds.
RestartDraws(w) ==
    IF w.data = "None" \/ ~HasColumns(w) THEN 0
    ELSE 1 + (IF w.numberOfClusters <= NumRows(w.data) /\ w.numberOfClusters > 1
              THEN w.numberOfClusters - 1 ELSE 0)

\* Number of random placements number_of_clusters_changed makes.
SpinDraws(w) ==
    IF w.data = "None" \/ w.numberOfClusters > NumRows(w.data) THEN 0
    ELSE IF ~w.k_means THEN RestartDraws(w)
    ELSE IF w.numberOfClusters > Len(w.centroids)
    THEN w.numberOfClusters - Len(w.centroids) ELSE 0

\* The points whose bounding box the placements of number_of_clusters_changed
\* are drawn from: those of the session, or of the session it creates.
SpinPoints(w) == IF w.k_means THEN w.kdata ELSE RestartPoints(w)

\* History variable run: base is the session's snapshot when the current run
\* of step()/stepBack() calls began, n the number of its step() calls not yet
\* undone, peak the largest n of the run (counted up to 2).  A handler that can change the
\* session otherwise starts a new run.
RunFrom(w) == [base |-> Snapshot(w), n |-> 0, peak |-> 0]

RunAfter(op, w) ==
    IF op = "step"
    THEN IF k_means
         THEN [run EXCEPT !.n = @ + 1, !.peak = Max(@, Min(run.n + 1, 2))]
         ELSE run
    ELSE IF op = "step_back"
    THEN IF k_means /\ history # << >>
         THEN IF run.n > 0 THEN [run EXCEPT !.n = @ - 1] ELSE RunFrom(w)
         ELSE run
    ELSE IF op \in {"set_data", "restart", "spin", "click", "drop"}
    THEN RunFrom(w)
    ELSE run

\* History variable net: step() calls minus stepBack() calls that found a
\* snapshot to pop, since the session was created.
NetAfter(op, w) ==
    IF op = "step" /\ k_means THEN net + 1
    ELSE IF op = "step_back" /\ k_means /\ history # << >> THEN net - 1
    ELSE IF op = "set_data" /\ w.data \in GoodTables THEN 0
    ELSE IF op = "restart" /\ w.data # "None" /\ HasColumns(w) THEN 0
    ELSE IF op = "spin" /\ ~k_means /\ w.k_means THEN 0
    ELSE net

\* The handler op has run and left the widget in state w.
Handled(op, w) ==
    \E v \in {w} :
        /\ Set(v)
        /\ lastOp' = op
        /\ afterStop' = IF op = "auto_play" /\ autoPlay
                        THEN [i \in Threads |->
                                 IF tpc[i] # "idle" THEN 0 ELSE afterStop[i]]
                        ELSE afterStop
        /\ run' = RunAfter(op, v)
        /\ net' = NetAfter(op, v)

\* The user has done one more thing.
Counted == prep' = Min(prep + 1, MaxPrepare)

\* After OWKmeans.__init__: no data, no session, the options box and the
\* "Step back" button disabled, an empty chart rendered.
Init ==
    /\ data = "None" /\ attr_x = "" /\ attr_y = "" /\ info = "no data"
    /\ k_means = FALSE /\ kdata = << >> /\ centroids = << >> /\ clusters = << >>
    /\ step_completed = FALSE /\ history = << >> /\ converged = FALSE
    /\ numberOfClusters = DefaultClusters /\ autoPlay = FALSE
    /\ optionsDisabled = TRUE /\ commandsDisabled = FALSE
    /\ stepDisabled = FALSE /\ restartDisabled = FALSE
    /\ stepBackDisabled = TRUE /\ spinnerDisabled = FALSE
    /\ stepText = "Move centroids" /\ chart = "empty"
    /\ draggable = FALSE /\ drawnK = 0 /\ annotated = NoOutput
    /\ dragging = -1
    /\ tpc = [i \in Threads |-> "idle"] /\ queue = << >>
    /\ current = 0 /\ blocked = FALSE
    /\ rejectRaises \in BOOLEAN
    /\ afterStop = [i \in Threads |-> -1]
    /\ lastOp = "init"
    /\ run = [base |-> [centroids |-> << >>, clusters |-> << >>,
                        step_completed |-> FALSE], n |-> 0, peak |-> 0]
    /\ net = 0
    /\ prep = 0

\* The widget as set_data hands it to restart, when table d arrives.
Arrived(d) ==
    IF d \in GoodTables
    THEN [State EXCEPT !.data = d, !.attr_x = ComboItems(d)[1],
                       !.attr_y = ComboItems(d)[2]]
    ELSE [State EXCEPT !.data = "None"]

\* A table of T (or None) arrives on the "Data" input.
SetData(T) ==
    /\ ~blocked
    /\ \E d \in T :
          \E rnd \in RandSeqs(RestartPoints(Arrived(d)), RestartDraws(Arrived(d))) :
             Handled("set_data", set_data(State, d, rnd, rejectRaises))
    /\ Counted
    /\ UNCHANGED << dragging, tpc, queue, current, blocked, rejectRaises >>

\* The user presses "Restart".
Restart ==
    /\ ~blocked
    /\ ~commandsDisabled /\ ~restartDisabled
    /\ \E rnd \in RandSeqs(RestartPoints(State), RestartDraws(State)) :
          Handled("restart", restart(State, rnd, rejectRaises))
    /\ Counted
    /\ UNCHANGED << dragging, tpc, queue, current, blocked, rejectRaises >>

\* The user picks an item in the "X:" or the "Y:" combo box: the box stores
\* the item's text in attr_x (attr_y) and calls restart.
ComboPick ==
    /\ ~blocked
    /\ ~optionsDisabled
    /\ \E i \in 1..Len(ComboItems(data)) :
          \E w \in {[State EXCEPT !.attr_x = ComboItems(data)[i]],
                    [State EXCEPT !.attr_y = ComboItems(data)[i]]} :
             \E rnd \in RandSeqs(RestartPoints(w), RestartDraws(w)) :
                Handled("restart", restart(w, rnd, rejectRaises))
    /\ Counted
    /\ UNCHANGED << dragging, tpc, queue, current, blocked, rejectRaises >>

\* The user presses the step button.
Step(maxSteps) ==
    /\ ~blocked
    /\ ~commandsDisabled /\ ~stepDisabled
    /\ Len(history) < maxSteps
    /\ Handled("step", step(State))
    /\ Counted
    /\ UNCHANGED << dragging, tpc, queue, current, blocked, rejectRaises >>

\* The user presses "Step back".
StepBack ==
    /\ ~blocked
    /\ ~commandsDisabled /\ ~stepBackDisabled
    /\ Handled("step_back", step_back(State))
    /\ Counted
    /\ UNCHANGED << dragging, tpc, queue, current, blocked, rejectRaises >>

\* The user changes the "Number of centroids" spinner to v.
SpinChange ==
    /\ ~blocked
    /\ ~optionsDisabled /\ ~spinnerDisabled
    /\ \E v \in SpinMin..Min(SpinMax, MaxSpin) :
          /\ v # numberOfClusters
          /\ \E w \in {[State EXCEPT !.numberOfClusters = v]} :
                \E rnd \in RandSeqs(SpinPoints(w), SpinDraws(w)) :
                   Handled("spin", number_of_clusters_changed(w, rnd, rejectRaises))
    /\ Counted
    /\ UNCHANGED << dragging, tpc, queue, current, blocked, rejectRaises >>

\* The user toggles "Membership lines": the callback is replot.
ToggleLines ==
    /\ ~blocked
    /\ ~optionsDisabled
    /\ Handled("lines", replot(State))
    /\ Counted
    /\ UNCHANGED << dragging, tpc, queue, current, blocked, rejectRaises >>

\* The user clicks into the chart.
GraphClick ==
    /\ ~blocked
    /\ Len(centroids) < MaxK
    /\ numberOfClusters < MaxSpin
    /\ \E pos \in ClickPositions :
          Handled("click", graph_clicked(State, pos, rejectRaises))
    /\ Counted
    /\ UNCHANGED << dragging, tpc, queue, current, blocked, rejectRaises >>

\* The user picks up a plotted centroid; the chart lets him when the series
\* was plotted draggable.
DragStart ==
    /\ ~blocked
    /\ chart = "plot" /\ draggable /\ dragging = -1
    /\ \E i \in 0..(drawnK - 1) : dragging' = i
    /\ lastOp' = "drag"
    /\ Counted
    /\ UNCHANGED << wvars, tpc, queue, current, blocked, rejectRaises, afterStop,
                    run, net >>

\* The user drops the centroid: Scatterplot.point_dropped -> centroid_dropped.
Drop ==
    /\ ~blocked
    /\ dragging # -1
    /\ \E pos \in DropPositions :
          Handled("drop", centroid_dropped(State, dragging, pos, rejectRaises))
    /\ dragging' = -1
    /\ Counted
    /\ UNCHANGED << tpc, queue, current, blocked, rejectRaises >>

\* The slot a newly created Autoplay thread takes.
FreeSlot == CHOOSE i \in Threads : tpc[i] = "idle" /\ \A j \in 1..(i - 1) : tpc[j] # "idle"

\* The user presses "Start"/"Stop".  Starting rebinds self.autoPlayThread.  The
\* Autoplay object it held is finalised there (and __del__ waits for its
\* thread) only when nothing else refers to it, that is when its thread was
\* started but has not entered run() yet; a thread inside run() keeps its
\* object alive, and the new thread is started next to it.
AutoPlayClick ==
    /\ ~blocked
    /\ ~commandsDisabled
    /\ IF ~autoPlay
       THEN /\ \/ current # 0 /\ tpc[current] = "new"
               \/ \E i \in Threads : tpc[i] = "idle"
            /\ Handled("auto_play", auto_play(State))
            /\ IF current # 0 /\ tpc[current] = "new"
               THEN blocked' = TRUE /\ UNCHANGED << tpc, current >>
               ELSE /\ blocked' = FALSE
                    /\ current' = FreeSlot
                    /\ tpc' = [tpc EXCEPT ![FreeSlot] = "new"]
       ELSE /\ Handled("auto_play", stop_auto_play(State))
            /\ UNCHANGED << tpc, current, blocked >>
    /\ Counted
    /\ UNCHANGED << dragging, queue, rejectRaises >>

\* The old thread has finished: wait() returns, the new thread is started.
ThreadJoined ==
    /\ blocked /\ tpc[current] = "idle"
    /\ blocked' = FALSE
    /\ current' = FreeSlot
    /\ tpc' = [tpc EXCEPT ![FreeSlot] = "new"]
    /\ lastOp' = "joined"
    /\ UNCHANGED << wvars, dragging, queue, rejectRaises, afterStop, run, net, prep >>

\* A started thread enters Autoplay.run.
ThreadEnterRun ==
    /\ \E i \in Threads :
          /\ tpc[i] = "new"
          /\ tpc' = [tpc EXCEPT ![i] = "loop"]
    /\ lastOp' = "thread"
    /\ UNCHANGED << prep, wvars, dragging, queue, current, blocked, rejectRaises,
                    afterStop, run, net >>

\* Autoplay.run, the loop test: the thread reads k_means.converged (it ends
\* with an AttributeError when there is no session) ...
ThreadReadConverged ==
    /\ \E i \in Threads :
          /\ tpc[i] = "loop"
          /\ tpc' = [tpc EXCEPT ![i] = IF ~k_means THEN "idle"
                                       ELSE IF converged THEN "stop" ELSE "auto"]
          /\ afterStop' = IF ~k_means THEN [afterStop EXCEPT ![i] = -1] ELSE afterStop
    /\ lastOp' = "thread"
    /\ UNCHANGED << wvars, dragging, queue, current, blocked, rejectRaises, run, net,
                    prep >>

\* ... and then owkmeans.autoPlay: it goes on to emit step(), or leaves the
\* loop to emit stop_auto_play().
ThreadReadAutoPlay ==
    /\ \E i \in Threads :
          /\ tpc[i] = "auto"
          /\ tpc' = [tpc EXCEPT ![i] = IF autoPlay THEN "step" ELSE "stop"]
    /\ lastOp' = "thread"
    /\ UNCHANGED << wvars, dragging, queue, current, blocked, rejectRaises, afterStop,
                    run, net, prep >>

\* Autoplay.run, the loop body: the thread emits step(), sleeps and comes back
\* to the loop test.
ThreadEmitStep ==
    /\ Len(queue) < MaxQueue
    /\ \E i \in Threads :
          /\ tpc[i] = "step"
          /\ tpc' = [tpc EXCEPT ![i] = "loop"]
          /\ afterStop' = IF afterStop[i] >= 0
                          THEN [afterStop EXCEPT ![i] = Min(@ + 1, 2)]
                          ELSE afterStop
    /\ queue' = Append(queue, "step")
    /\ lastOp' = "thread"
    /\ UNCHANGED << wvars, dragging, current, blocked, rejectRaises, run, net, prep >>

\* Autoplay.run, after the loop: the thread emits stop_auto_play() and ends.
ThreadEmitStop ==
    /\ Len(queue) < MaxQueue
    /\ \E i \in Threads :
          /\ tpc[i] = "stop"
          /\ tpc' = [tpc EXCEPT ![i] = "idle"]
          /\ afterStop' = [afterStop EXCEPT ![i] = -1]
    /\ queue' = Append(queue, "stop_auto_play")
    /\ lastOp' = "thread"
    /\ UNCHANGED << wvars, dragging, current, blocked, rejectRaises, run, net, prep >>

\* The main event loop delivers a queued signal to the connected slot.
Deliver(maxSteps) ==
    /\ ~blocked
    /\ queue # << >>
    /\ queue' = Tail(queue)
    /\ UNCHANGED << dragging, tpc, current, blocked, rejectRaises, prep >>
    /\ IF Head(queue) = "step"
       THEN /\ Len(history) < maxSteps
            /\ Handled("step", step(State))
       ELSE Handled("stop_auto_play", stop_auto_play(State))

\* The event loop has a signal it can deliver: ENABLED <<Deliver(maxSteps)>>_vars,
\* since every handler returns a state and a delivery shortens the queue.
DeliverEnabled(maxSteps) ==
    /\ ~blocked
    /\ queue # << >>
    /\ Head(queue) = "step" => Len(history) < maxSteps

\* The whole widget.
Next ==
    \/ SetData(Tables)
    \/ Restart
    \/ Step(MaxStepsWide)
    \/ StepBack
    \/ SpinChange
    \/ ToggleLines
    \/ GraphClick
    \/ DragStart
    \/ Drop
    \/ ComboPick
    \/ AutoPlayClick
    \/ ThreadJoined
    \/ ThreadEnterRun
    \/ ThreadReadConverged
    \/ ThreadReadAutoPlay
    \/ ThreadEmitStep
    \/ ThreadEmitStop
    \/ Deliver(MaxStepsWide)

Spec == Init /\ [][Next]_vars

\* One session: the table T1 arrives, and the user steps, steps back, restarts
\* and changes the number of centroids.
NextSession ==
    \/ SetData({"T1"})
    \/ Restart
    \/ Step(MaxSteps)
    \/ StepBack
    \/ SpinChange

SpecSession == Init /\ [][NextSession]_vars

\* One session over T1, created once, in which the user also changes the
\* number of centroids and moves centroids, with anything happening between
\* the start of a drag and the drop.
NextMove ==
    \/ ~k_means /\ SetData({"T1"})
    \/ Step(MaxSteps)
    \/ StepBack
    \/ SpinChange
    \/ DragStart
    \/ Drop

SpecMove == Init /\ [][NextMove]_vars

\* One session again, with fewer steps, with chart clicks, and with anything
\* happening between the start of a drag and the drop.
NextDrag ==
    \/ SetData({"T1"})
    \/ Restart
    \/ Step(MaxStepsWide)
    \/ StepBack
    \/ SpinChange
    \/ GraphClick
    \/ DragStart
    \/ Drop

SpecDrag == Init /\ [][NextDrag]_vars

\* Autoplay: a session over T1, the "Start"/"Stop" button, the Autoplay thread
\* and the event loop delivering its signals, while the user can still press
\* the enabled buttons and click into the chart.
NextAuto ==
    \/ SetData({"T1"})
    \/ Step(MaxStepsWide)
    \/ StepBack
    \/ GraphClick
    \/ AutoPlayClick
    \/ ThreadJoined
    \/ ThreadEnterRun
    \/ ThreadReadConverged
    \/ ThreadReadAutoPlay
    \/ ThreadEmitStep
    \/ ThreadEmitStop
    \/ Deliver(MaxStepsWide)

SpecAuto == Init /\ [][NextAuto]_vars

\* The data input and the controls, without the Autoplay thread: any table
\* can arrive at any time.
NextInput ==
    \/ SetData(Tables)
    \/ Restart
    \/ Step(MaxStepsWide)
    \/ StepBack
    \/ SpinChange
    \/ GraphClick
    \/ ComboPick

SpecInput == Init /\ [][NextInput]_vars

\* An unattended autoplay run: the user does up to MaxPrepare things the
\* enabled controls and the chart allow on a session over T1, presses "Start"
\* once and then does nothing; the threads and the event loop are scheduled
\* fairly.  The event loop's weak fairness, WF_vars(Deliver(MaxAutoSteps)), is
\* written out as "infinitely often not enabled, or infinitely often taken".
Untouched ==
    /\ ~autoPlay /\ queue = << >>
    /\ \A i \in Threads : tpc[i] = "idle"
    /\ lastOp \notin {"auto_play", "thread", "stop_auto_play"}

Preparing == Untouched /\ prep < MaxPrepare

NextAutoRun ==
    \/ Preparing /\ SetData({"T1"})
    \/ Preparing /\ Restart
    \/ Preparing /\ ComboPick
    \/ Preparing /\ Step(MaxStepsWide)
    \/ Preparing /\ StepBack
    \/ Preparing /\ SpinChange
    \/ Preparing /\ GraphClick
    \/ Preparing /\ DragStart
    \/ Preparing /\ Drop
    \/ Untouched /\ k_means /\ AutoPlayClick
    \/ ThreadEnterRun
    \/ ThreadReadConverged
    \/ ThreadReadAutoPlay
    \/ ThreadEmitStep
    \/ ThreadEmitStop
    \/ Deliver(MaxAutoSteps)

SpecAutoRun ==
    /\ Init /\ [][NextAutoRun]_vars
    /\ WF_vars(ThreadEnterRun)
    /\ WF_vars(ThreadReadConverged)
    /\ WF_vars(ThreadReadAutoPlay)
    /\ WF_vars(ThreadEmitStep)
    /\ WF_vars(ThreadEmitStop)
    /\ ([]<>~DeliverEnabled(MaxAutoSteps) \/ []<><<Deliver(MaxAutoSteps)>>_vars)


\* ---------------------------------------------------------------- claims
session == << centroids, clusters, step_completed, history, converged >>

\* C1: when every step() of a run of step()/stepBack() calls has been undone,
\* the centroids, the assignments (unassigned included) and the phase are
\* exactly those the run started from.
C1_RoundTrip ==
    (k_means /\ run.n = 0) => Snapshot(State) = run.base

\* C1 witness: a run went at least two steps deep and was stepped back to its
\* start, which had nothing assigned yet.
C1_Witness ==
    /\ k_means /\ lastOp = "step_back"
    /\ run.n = 0 /\ run.peak >= 2
    /\ clusters = << >> /\ Snapshot(State) = run.base

\* C2: the history length equals the steps minus the effective step-backs
\* since the session was created and is never negative; stepBack() changes
\* nothing on an empty history and removes exactly the last snapshot otherwise.
C2_HistoryBound ==
    /\ [](k_means => (Len(history) = net /\ net >= 0))
    /\ [][(lastOp' = "step_back" /\ k_means) =>
            IF history = << >>
            THEN UNCHANGED session
            ELSE history' = SubSeq(history, 1, Len(history) - 1)]_vars

\* C2 witness: a step back that left snapshots behind.
C2_Witness ==
    /\ k_means /\ lastOp = "step_back"
    /\ net >= 1 /\ Len(history) = net


\* C3: a session always has at least one centroid, also after a delete was
\* requested with one centroid left.
C3_AtLeastOneCentroid ==
    k_means => Len(centroids) >= 1

\* C3 witness: restart ran with numberOfClusters = 0, so that
\* number_of_clusters_changed asked to delete the only centroid.
C3_Witness ==
    /\ k_means /\ lastOp \in {"restart", "set_data"}
    /\ numberOfClusters = 0 /\ Len(centroids) = 1

\* C4 (as claimed): whenever assignments exist there is one per point and each
\* is a centroid index in [0, K); the exported labels are below the exported
\* number of clusters.
C4_AssignmentsInRange ==
    /\ (k_means /\ clusters # << >>) =>
          /\ Len(clusters) = Len(kdata)
          /\ \A i \in 1..Len(clusters) : clusters[i] \in 0..(Len(centroids) - 1)
    /\ \A i \in 1..Len(annotated.clusters) : annotated.clusters[i] < annotated.k

AssignStep == lastOp' = "step" /\ k_means /\ step_completed
UpdateStep == lastOp' = "step" /\ k_means /\ ~step_completed

\* C5 (as claimed): converged holds only after an assignment-phase step whose
\* result equals the assignments before it; any other operation that changes
\* the session leaves it false.
C5_Original ==
    [][converged' =>
          \/ AssignStep /\ clusters # << >> /\ clusters' = clusters
          \/ UNCHANGED session]_vars

\* C5 (amended): converged becomes true only by an assignment-phase step whose
\* result equals the assignments before it; it stays true only over such a
\* step, over an update-phase step that moves no centroid, or when the session
\* is not changed; an update-phase step that moves a centroid, an add, a
\* delete, a move and an effective step back leave it false.
C5_Converged ==
    [][/\ (converged' /\ ~converged) =>
              (AssignStep /\ clusters # << >> /\ clusters' = clusters)
       /\ (converged' /\ converged) =>
              \/ AssignStep /\ clusters' = clusters
              \/ UpdateStep /\ centroids' = centroids
              \/ UNCHANGED session
       /\ (UpdateStep /\ centroids' # centroids) => ~converged'
       /\ (lastOp' = "spin" /\ Len(centroids') # Len(centroids)) => ~converged'
       /\ (lastOp' = "click" /\ Len(centroids') # Len(centroids)) => ~converged'
       /\ (lastOp' = "drop" /\ centroids' # centroids) => ~converged'
       /\ (lastOp' = "step_back" /\ k_means /\ history # << >>) => ~converged'
      ]_vars

\* C5 witness: an assignment-phase step has just set converged.
C5_Witness ==
    k_means /\ converged /\ lastOp = "step" /\ ~step_completed

\* C6 (as claimed): a step taken while converged holds leaves the centroids
\* where they are.
C6_Idempotent ==
    [][(k_means /\ converged /\ lastOp' = "step") => centroids' = centroids]_vars

\* C7: after an assignment-phase step no centroid is closer to a point than
\* the one it is assigned to, and among the closest ones it is assigned to the
\* lowest index.
C7_AssignmentCorrect ==
    (k_means /\ lastOp = "step" /\ ~step_completed) =>
        /\ Len(clusters) = Len(kdata)
        /\ \A i \in 1..Len(kdata) :
              /\ clusters[i] \in 0..(Len(centroids) - 1)
              /\ \A j \in 1..Len(centroids) :
                    /\ Dist2(kdata[i], centroids[clusters[i] + 1])
                          <= Dist2(kdata[i], centroids[j])
                    /\ Dist2(kdata[i], centroids[clusters[i] + 1])
                          = Dist2(kdata[i], centroids[j]) => clusters[i] + 1 <= j

\* C7 witness: after an assignment-phase step a point is equally close to its
\* centroid and to another centroid at a different position.
C7_Witness ==
    /\ k_means /\ lastOp = "step" /\ ~step_completed
    /\ \E i \in 1..Len(kdata) : \E j \in 1..Len(centroids) :
          /\ j # clusters[i] + 1
          /\ centroids[j] # centroids[clusters[i] + 1]
          /\ Dist2(kdata[i], centroids[j]) = Dist2(kdata[i], centroids[clusters[i] + 1])

RECURSIVE SetSum(_, _, _)
SetSum(pts, S, c) ==
    IF S = {} THEN 0
    ELSE LET i == CHOOSE x \in S : TRUE
         IN pts[i][c] + SetSum(pts, S \ {i}, c)

\* C8: an update-phase step leaves the assignments as they are, puts every
\* centroid with assigned points at the mean of exactly those points and
\* leaves every centroid without assigned points where it was.
C8_UpdateCorrect ==
    [][UpdateStep =>
          /\ clusters' = clusters
          /\ Len(centroids') = Len(centroids)
          /\ \A j \in 1..Len(centroids) :
                LET M == Members(clusters, j - 1)
                IN IF M = {} THEN centroids'[j] = centroids[j]
                   ELSE /\ Cardinality(M) * centroids'[j][1] = SetSum(kdata, M, 1)
                        /\ Cardinality(M) * centroids'[j][2] = SetSum(kdata, M, 2)
      ]_vars

\* C8 witness: after an update-phase step one centroid has no points, and
\* another one, with two or more points, has moved.
C8_Witness ==
    /\ k_means /\ lastOp = "step" /\ step_completed /\ history # << >>
    /\ \E j \in 1..Len(centroids) : Members(clusters, j - 1) = {}
    /\ \E j \in 1..Len(centroids) :
          /\ Cardinality(Members(clusters, j - 1)) >= 2
          /\ centroids[j] # history[Len(history)].centroids[j]

\* set_data or restart has built a session: a table with two continuous
\* features arrived, or restart found the two selected columns.
Restarted ==
    \/ lastOp' = "set_data" /\ data' \in GoodTables
    \/ lastOp' = "restart" /\ data' # "None" /\ HasColumns(State)'

\* C9: a chart click in the wrong phase, a drop in the wrong phase or of an
\* index >= K leave the session's centroids, assignments, phase, history and
\* converged as they were, and the session stays; a restart that asks to
\* delete the only centroid leaves the fresh session with that centroid.
C9_RejectedChangesNothing ==
    [][/\ (lastOp' = "click" /\ k_means /\ ~step_completed) =>
              (UNCHANGED session /\ k_means')
       /\ (lastOp' = "drop" /\ k_means
             /\ (~step_completed \/ dragging >= Len(centroids))) =>
              (UNCHANGED session /\ k_means')
       /\ (Restarted /\ numberOfClusters' = 0) =>
              /\ k_means' /\ Len(centroids') = 1 /\ clusters' = << >>
              /\ step_completed' /\ history' = << >> /\ ~converged'
      ]_vars

\* C9 witness: a centroid was dropped while the next step is an update.
C9_Witness ==
    k_means /\ lastOp = "drop" /\ ~step_completed /\ clusters # << >>

\* C10 (as claimed): add_centroids, delete_centroids and move_centroid are
\* called only while step_completed is true.
C10_EditsOnlyWhenCompleted ==
    [][/\ (lastOp' = "drop" /\ k_means) => step_completed
       /\ (lastOp' = "click" /\ Len(centroids') # Len(centroids)) => step_completed
       /\ (lastOp' = "spin" /\ k_means /\ numberOfClusters' <= NumRows(data)
             /\ numberOfClusters' # Len(centroids)) => step_completed
      ]_vars

\* A handler called by the user (not by a signal of the Autoplay thread, whose
\* delivery shortens the queue) has called a Kmeans operation.
UserSessionOp ==
    /\ k_means /\ queue' = queue
    /\ \/ lastOp' \in {"step", "step_back", "restart", "drop"}
       \/ lastOp' \in {"click", "spin"} /\ Len(centroids') # Len(centroids)

\* C11 (as claimed): while autoPlay is set or the Autoplay thread has not
\* finished, no step, step back, restart, add, delete or move requested by the
\* user reaches the session.
C11_AutoplaySerialized ==
    [][(autoPlay \/ \E i \in Threads : tpc[i] # "idle") => ~UserSessionOp]_vars

\* C12 (as claimed): after the user has stopped autoplay, the thread that was
\* running emits at most one more step() signal before it ends.
C12_StopsAfterOneStep ==
    \A i \in Threads : afterStop[i] <= 1

\* C13 (as claimed): set_data and restart leave either no session or a fresh
\* session over the current data (nothing assigned, no history, initial
\* phase, not converged), and a step or step back operates only on a session
\* built from the current data.
C13_SessionReplaced ==
    [][/\ (lastOp' \in {"set_data", "restart"}) =>
              \/ ~k_means'
              \/ /\ kdata' = RestartPoints(State)' /\ clusters' = << >>
                 /\ history' = << >> /\ step_completed' /\ ~converged'
       /\ (lastOp' \in {"step", "step_back"} /\ k_means) =>
              kdata = RestartPoints(State)
      ]_vars

\* C14 (as claimed): a session in which step() can be invoked never has more
\* centroids than data points, and a request for more centroids than points
\* by the spinner or by a chart click shows the message and adds no centroid.
C14_NoMoreCentroidsThanPoints ==
    /\ [](( k_means /\ ~commandsDisabled /\ ~stepDisabled) =>
              Len(centroids) <= Len(kdata))
    /\ [][(lastOp' = "spin" /\ data # "None"
             /\ numberOfClusters' > NumRows(data)) =>
              (info' = "too few points" /\ commandsDisabled'
               /\ UNCHANGED centroids)]_vars
    /\ [][(lastOp' = "click" /\ k_means /\ step_completed
             /\ Len(centroids) >= Len(kdata)) =>
              (info' = "too few points" /\ Len(centroids') <= Len(kdata'))]_vars

\* C15 (as claimed): with a session, the "Step back" button can be pressed
\* only when the history is not empty, and step_back() never finds an empty
\* history.
C15_StepBackNeedsHistory ==
    /\ []((k_means /\ ~commandsDisabled /\ ~stepBackDisabled) => history # << >>)
    /\ [][(lastOp' = "step_back" /\ k_means) => history # << >>]_vars

\* "Start" has just been pressed on a session.
AutoplayStarted == k_means /\ autoPlay /\ lastOp = "auto_play"

\* The run is over: autoPlay is false, every thread has finished, its signals
\* are handled and the options, step and restart controls are enabled.
AutoplayEnded ==
    /\ k_means /\ ~autoPlay /\ queue = << >>
    /\ \A i \in Threads : tpc[i] = "idle"
    /\ ~optionsDisabled /\ ~stepDisabled /\ ~restartDisabled

\* C16: an autoplay run started on a session, whatever the user did to the
\* session before, and left alone reaches a converged session, and it reaches
\* the end of the run: autoPlay false, the thread finished, its signals handled
\* and the options, step and restart controls enabled; a thread that reads
\* converged leaves its loop and emits stop_auto_play, not step.  (Steps the
\* thread had queued before that read are still handled, so the session the
\* run ends on need not be converged.)
C16_AutoplayTerminates ==
    /\ AutoplayStarted ~> converged
    /\ AutoplayStarted ~> AutoplayEnded
    /\ [][\A i \in Threads :
             /\ (tpc[i] = "loop" /\ tpc'[i] # "loop" /\ k_means /\ converged) =>
                   tpc'[i] = "stop"
             /\ (tpc[i] = "stop" /\ tpc'[i] # "stop") =>
                   (tpc'[i] = "idle" /\ queue' = Append(queue, "stop_auto_play"))]_vars

\* C16 witness: a run started after the user had done three things or more on
\* the widget has ended converged, four steps or more into a session with two
\* centroids.
C16_Witness ==
    /\ AutoplayEnded /\ converged /\ lastOp = "stop_auto_play"
    /\ Len(history) >= 4 /\ Len(centroids) = 2 /\ prep >= 4

\* C17 (as claimed): with a session, the step button reads "Move centroids"
\* exactly when the next step() is an update phase and "Find new clusters"
\* exactly when it is an assignment phase.
C17_LabelAnnouncesNextPhase ==
    k_means => /\ (stepText = "Move centroids") <=> ~step_completed
               /\ (stepText = "Find new clusters") <=> step_completed

\* C18 (as claimed): after every widget operation that leaves a usable
\* session, numberOfClusters equals the number of centroids and lies within
\* the spinner's range.
C18_SpinnerAgreesWithSession ==
    [][(/\ lastOp' \in {"set_data", "restart", "spin", "click", "step",
                        "step_back", "drop"}
        /\ k_means' /\ data' \in GoodTables /\ ~commandsDisabled') =>
          /\ numberOfClusters' = Len(centroids')
          /\ numberOfClusters' \in SpinMin..SpinMax]_vars

\* The main thread waits for the Autoplay thread to end while that thread
\* stays in its loop until the session, which only the main thread steps,
\* has converged.
WaitingForEachOther ==
    blocked /\ tpc[current] # "idle" /\ k_means /\ autoPlay /\ ~converged

\* C19 (as claimed): a new Autoplay thread is started only when the previous
\* one has left its loop, and the main thread never waits for a thread that
\* in turn depends on the main thread handling its step() signals.
C19_OneDriverNoDeadlock ==
    /\ [][(\E i \in Threads : tpc[i] = "idle" /\ tpc'[i] = "new") =>
              (\A j \in Threads : tpc[j] = "idle")]_vars
    /\ [](~WaitingForEachOther)

\* C20 (as claimed): without a session or without data the step, step back,
\* restart and autoplay commands cannot be invoked: their handlers never run
\* in such a state.
C20_NoCommandWithoutSession ==
    [][(lastOp' \in {"step", "step_back", "restart", "auto_play"}) =>
          (k_means /\ data # "None")]_vars

====
